---- MODULE Spec2Model ----
(***************************************************************************)
(* Model of the command execution engine of the shell (shell.c): the      *)
(* dispatch loop run_command, the built-ins exit and cd, the process       *)
(* launcher, the sequencer, the pipeline coordinator and the redirect      *)
(* wrapper, as a set of OS processes with their own call stack, descriptor *)
(* table, signal dispositions and working directory, over a file system    *)
(* with file bodies, open file descriptions and pipes.                     *)
(***************************************************************************)
EXTENDS Integers, Sequences, FiniteSets, TLC

(***************************************************************************)
(* Bounds of the model.                                                    *)
(***************************************************************************)
\* process ids available to fork(); fork fails with EAGAIN beyond them
MaxProcs == 9
\* size of a process's descriptor table; pipe/open fail with EMFILE beyond it
MaxFd == 8
\* longest argument string given to the exit built-in
MaxArgLen == 3

(***************************************************************************)
(* Program constants.                                                      *)
(***************************************************************************)
STDIN_FILENO == 0
STDOUT_FILENO == 1
STDERR_FILENO == 2
\* the pid of the top-level shell process
Shell == 1
\* a NULL node pointer
NULL == 0
\* exit() hands the low 8 bits of its argument to the waiting parent
StatusRange == 256

Pids == 1..MaxProcs
Fds == 0..(MaxFd - 1)
Signals == {"SIGINT", "SIGQUIT", "SIGTSTP"}

(***************************************************************************)
(* C strings are sequences of characters.                                  *)
(***************************************************************************)
S_exit == <<"e", "x", "i", "t">>
S_cd == <<"c", "d">>
S_ls == <<"l", "s">>
S_cat == <<"c", "a", "t">>
S_wc == <<"w", "c">>
S_file == <<"f">>
S_home == <<"/", "h">>
S_dir == <<"/", "d">>
S_gone == <<"/", "x">>
S_root == <<"/">>

\* the characters the arguments of exit are drawn from
ArgChars == {" ", "-", "2", "9", "a"}

RECURSIVE StringsUpTo(_)
StringsUpTo(n) ==
    IF n = 0 THEN {<<>>}
    ELSE LET shorter == StringsUpTo(n - 1)
         IN  shorter \cup {Append(s, c) : s \in shorter, c \in ArgChars}

IsSpace(c) == c \in {" "}

IsDigit(c) == c \in {"0", "1", "2", "3", "4", "5", "6", "7", "8", "9"}

DigitVal(c) ==
    CASE c = "0" -> 0 [] c = "1" -> 1 [] c = "2" -> 2 [] c = "3" -> 3
      [] c = "4" -> 4 [] c = "5" -> 5 [] c = "6" -> 6 [] c = "7" -> 7
      [] c = "8" -> 8 [] c = "9" -> 9

RECURSIVE SkipSpace(_)
SkipSpace(s) ==
    IF s # <<>> /\ IsSpace(Head(s)) THEN SkipSpace(Tail(s)) ELSE s

RECURSIVE ParseDigits(_, _)
ParseDigits(s, acc) ==
    IF s # <<>> /\ IsDigit(Head(s))
    THEN ParseDigits(Tail(s), acc * 10 + DigitVal(Head(s)))
    ELSE acc

\* atoi of the C library: leading white space, an optional sign, then the
\* longest run of digits; 0 when there is none
atoi(s) ==
    LET t == SkipSpace(s)
        signed == t # <<>> /\ Head(t) \in {"-", "+"}
        v == ParseDigits(IF signed THEN Tail(t) ELSE t, 0)
    IN  IF signed /\ Head(t) = "-" THEN 0 - v ELSE v

\* the status a parent observes for exit(code)
WaitStatus(code) == code % StatusRange

(***************************************************************************)
(* The AST (parser/ast.h): a tree is a table of nodes, node 1 its root;    *)
(* a node refers to its children by index, NULL for none.                  *)
(***************************************************************************)
NoNode ==
    [type |-> "NONE", program |-> <<>>, argv |-> <<>>, argc |-> 0,
     first |-> NULL, second |-> NULL, parts |-> <<>>, n_parts |-> 0,
     child |-> NULL, fd |-> -1, mode |-> "NONE", target |-> <<>>, fd2 |-> -1]

CmdNode(av) ==
    [NoNode EXCEPT !.type = "NODE_COMMAND", !.program = av[1], !.argv = av,
                   !.argc = Len(av)]

SeqNode(a, b) == [NoNode EXCEPT !.type = "NODE_SEQUENCE", !.first = a, !.second = b]

PipeNode(ps) == [NoNode EXCEPT !.type = "NODE_PIPE", !.parts = ps, !.n_parts = Len(ps)]

RedirNode(c, m, f, t, f2) ==
    [NoNode EXCEPT !.type = "NODE_REDIRECT", !.child = c, !.mode = m, !.fd = f,
                   !.target = t, !.fd2 = f2]

SubshellNode(c) == [NoNode EXCEPT !.type = "NODE_SUBSHELL", !.child = c]

DetachNode(c) == [NoNode EXCEPT !.type = "NODE_DETACH", !.child = c]

BuiltIns == {S_exit, S_cd}

\* exit with every argument string of the bound, followed by a command
ExitTrees ==
    {<<SeqNode(2, 3), CmdNode(<<S_exit, a>>), CmdNode(<<S_ls>>)>> : a \in StringsUpTo(MaxArgLen)}

OtherTrees ==
    { <<CmdNode(<<S_ls>>)>>,
      <<SeqNode(2, 3), CmdNode(<<S_exit>>), CmdNode(<<S_ls>>)>>,
      <<SeqNode(2, 3), CmdNode(<<S_ls>>), CmdNode(<<S_cat>>)>>,
      <<SeqNode(2, 3), CmdNode(<<S_cd>>), CmdNode(<<S_ls>>)>>,
      <<SeqNode(2, 3), CmdNode(<<S_cd, S_dir>>), CmdNode(<<S_ls>>)>>,
      <<SeqNode(2, 3), CmdNode(<<S_cd, S_gone>>), CmdNode(<<S_ls>>)>>,
      <<SeqNode(2, 5), SeqNode(3, 4), CmdNode(<<S_exit, <<"2">> >>), CmdNode(<<S_ls>>), CmdNode(<<S_cat>>)>>,
      <<SeqNode(2, 3), SubshellNode(5), SeqNode(4, NULL), DetachNode(5), CmdNode(<<S_ls>>)>>,
      <<PipeNode(<<2, 3>>), CmdNode(<<S_ls>>), CmdNode(<<S_cat>>)>>,
      <<PipeNode(<<2, 3, 4>>), CmdNode(<<S_ls>>), CmdNode(<<S_cat>>), CmdNode(<<S_wc>>)>>,
      <<SeqNode(2, 5), PipeNode(<<3, 4>>), CmdNode(<<S_ls>>), CmdNode(<<S_cat>>), CmdNode(<<S_wc>>)>>,
      <<PipeNode(<<2, 3>>), CmdNode(<<S_exit, <<"2">> >>), CmdNode(<<S_cat>>)>>,
      <<PipeNode(<<2, 3>>), CmdNode(<<S_ls>>), CmdNode(<<S_cd, S_dir>>)>>,
      <<PipeNode(<<2, 5>>), SeqNode(3, 4), CmdNode(<<S_cd, S_dir>>), CmdNode(<<S_ls>>), CmdNode(<<S_cat>>)>>,
      <<PipeNode(<<2, 4>>), RedirNode(3, "REDIRECT_INPUT", -1, S_file, -1), CmdNode(<<S_cat>>),
        CmdNode(<<S_wc>>)>>,
      <<PipeNode(<<2, 5>>), PipeNode(<<3, 4>>), CmdNode(<<S_ls>>), CmdNode(<<S_cat>>), CmdNode(<<S_wc>>)>>,
      <<RedirNode(2, "REDIRECT_OUTPUT", -1, S_file, -1), CmdNode(<<S_ls>>)>>,
      <<RedirNode(2, "REDIRECT_APPEND", 2, S_file, -1), CmdNode(<<S_cd, S_dir>>)>>,
      <<SeqNode(2, 6), RedirNode(3, "REDIRECT_OUTPUT", 1, S_file, -1), SeqNode(4, 5),
        CmdNode(<<S_exit, <<"9">> >>), CmdNode(<<S_ls>>), CmdNode(<<S_cat>>)>>,
      <<RedirNode(2, "REDIRECT_DUP", 2, <<>>, 1), CmdNode(<<S_ls>>)>>,
      <<RedirNode(2, "REDIRECT_DUP", 1, <<>>, 5), CmdNode(<<S_ls>>)>>,
      <<RedirNode(2, "REDIRECT_UNKNOWN", -1, S_file, -1), CmdNode(<<S_ls>>)>>,
      <<SeqNode(2, 4), RedirNode(3, "REDIRECT_OUTPUT", -1, S_file, -1), CmdNode(<<S_ls>>),
        RedirNode(5, "REDIRECT_INPUT", -1, S_file, -1), CmdNode(<<S_cat>>)>>,
      <<RedirNode(2, "REDIRECT_OUTPUT", 3, S_file, -1), CmdNode(<<S_ls>>)>>,
      <<RedirNode(2, "REDIRECT_APPEND", 9, S_file, -1), CmdNode(<<S_ls>>)>>,
      <<SeqNode(2, 4), RedirNode(3, "REDIRECT_APPEND", -1, S_file, -1), CmdNode(<<S_ls>>),
        RedirNode(5, "REDIRECT_APPEND", -1, S_file, -1), CmdNode(<<S_ls>>)>>,
      <<PipeNode(<<2, 4>>), RedirNode(3, "REDIRECT_DUP", 5, <<>>, 1), CmdNode(<<S_ls>>),
        CmdNode(<<S_cat>>)>>,
      <<SeqNode(2, 4), RedirNode(3, "REDIRECT_OUTPUT", -1, S_file, -1), CmdNode(<<S_ls>>),
        SeqNode(5, 7), RedirNode(6, "REDIRECT_INPUT", -1, S_file, -1), CmdNode(<<S_cat>>),
        SeqNode(8, 10), RedirNode(9, "REDIRECT_APPEND", -1, S_file, -1), CmdNode(<<S_ls>>),
        RedirNode(11, "REDIRECT_APPEND", -1, S_file, -1), CmdNode(<<S_ls>>)>> }

Trees == ExitTrees \cup OtherTrees

\* the directories chdir can enter
Dirs == {S_root, S_home, S_dir}

\* the values of the environment variable HOME; <<>> stands for unset
HomeValues == {<<>>, S_home, S_gone}

(***************************************************************************)
(* Descriptor tables: a descriptor refers to an open file description.     *)
(***************************************************************************)
Closed == [kind |-> "closed", id |-> 0]
Tty == [kind |-> "tty", id |-> 0]
PipeRead(k) == [kind |-> "pipe_read", id |-> k]
PipeWrite(k) == [kind |-> "pipe_write", id |-> k]
\* the paths of the file system, a file being known by its index
Paths == <<S_file>>
PathId(t) == CHOOSE k \in 1..Len(Paths) : Paths[k] = t
\* a descriptor of the k-th open file description the kernel has created
File(k) == [kind |-> "file", id |-> k]

NoFds == [f \in Fds |-> Closed]

StdFds == [f \in Fds |-> IF f <= STDERR_FILENO THEN Tty ELSE Closed]

IsOpen(tab, f) == f \in Fds /\ tab[f] # Closed

FreeFds(tab) == {f \in Fds : tab[f] = Closed}

\* the lowest descriptor not open, as open and pipe allocate
LowestFree(tab) == CHOOSE f \in FreeFds(tab) : \A g \in FreeFds(tab) : f <= g

\* close(fd): closing a descriptor that is not open fails with EBADF
Close(tab, f) == IF f \in Fds THEN [tab EXCEPT ![f] = Closed] ELSE tab

\* dup2(old, new) succeeds when old is open and new is in range
Dup2Ok(tab, old, new) == IsOpen(tab, old) /\ new \in Fds

Dup2(tab, old, new) ==
    IF Dup2Ok(tab, old, new) THEN [tab EXCEPT ![new] = tab[old]] ELSE tab

\* the cleanup loop over the pipes array: close(pipes[j][0]); close(pipes[j][1])
RECURSIVE ClosePipes(_, _)
ClosePipes(tab, pipes) ==
    IF pipes = <<>> THEN tab
    ELSE ClosePipes(Close(Close(tab, Head(pipes)[1]), Head(pipes)[2]), Tail(pipes))

(***************************************************************************)
(* The file system: the body of every file and the open file descriptions, *)
(* each with its flags and its offset.  A file system value is a record    *)
(* [content, opens].                                                       *)
(***************************************************************************)
O_RDONLY == "O_RDONLY"
O_TRUNC == "O_WRONLY|O_CREAT|O_TRUNC"
O_APPEND == "O_WRONLY|O_CREAT|O_APPEND"

\* a redirect wrapper that opens the file of >> as > does
OpenFlags_appendTruncates(mode) ==
    CASE mode = "REDIRECT_INPUT" -> O_RDONLY
      [] mode = "REDIRECT_OUTPUT" -> O_TRUNC
      [] mode = "REDIRECT_APPEND" -> O_TRUNC
      [] OTHER -> "none"

\* the flags the redirect wrapper hands to open() for each mode
OpenFlags(mode) ==
    CASE mode = "REDIRECT_INPUT" -> O_RDONLY
      [] mode = "REDIRECT_OUTPUT" -> O_TRUNC
      [] mode = "REDIRECT_APPEND" -> O_APPEND
      [] OTHER -> "none"

\* the body of a file once it is opened: O_TRUNC empties it
OpenBody(flags, body) == IF flags = O_TRUNC THEN <<>> ELSE body

\* open(path, flags) succeeded: a new description at offset 0; log is what is
\* written through it, found the body the file had, excl whether no other
\* process had the file open for writing, by the node whose redirect opened it
OpenFs(fs, path, flags, excl, by) ==
    LET k == PathId(path)
    IN  [content |-> [fs.content EXCEPT ![k] = OpenBody(flags, @)],
         opens |-> Append(fs.opens, [path |-> k, flags |-> flags, off |-> 0,
                                      log |-> <<>>, found |-> fs.content[k],
                                      excl |-> excl, by |-> by])]

RECURSIVE Nuls(_)
\* the zero bytes of a hole
Nuls(n) == IF n = 0 THEN <<>> ELSE <<"NUL">> \o Nuls(n - 1)

\* the body after bytes are written at offset off
WriteAt(body, off, bytes) ==
    LET padded == IF off > Len(body) THEN body \o Nuls(off - Len(body)) ELSE body
    IN  SubSeq(padded, 1, off) \o bytes \o SubSeq(padded, off + Len(bytes) + 1, Len(padded))

\* write(d, bytes): at the offset of the description, or at the end of the
\* file under O_APPEND; a pipe or a terminal takes the bytes away
WriteFs(fs, d, bytes) ==
    IF d.kind # "file" \/ bytes = <<>> THEN fs
    ELSE LET o == fs.opens[d.id]
             body == fs.content[o.path]
             at == IF o.flags = O_APPEND THEN Len(body) ELSE o.off
         IN  IF o.flags = O_RDONLY THEN fs
             ELSE [content |-> [fs.content EXCEPT ![o.path] = WriteAt(body, at, bytes)],
                   opens |-> [fs.opens EXCEPT ![d.id] =
                                 [o EXCEPT !.off = at + Len(bytes), !.log = @ \o bytes]]]

\* read(d) until end-of-file: the bytes from the offset to the end of a file;
\* the data of a pipe or of the terminal are not followed, one byte stands
\* for them
ReadFs(fs, d) ==
    CASE d.kind = "file" ->
           LET o == fs.opens[d.id]
               body == fs.content[o.path]
           IN  IF o.flags # O_RDONLY THEN [fs |-> fs, bytes |-> <<>>]
               ELSE [fs |-> [fs EXCEPT !.opens[d.id].off = IF o.off > Len(body) THEN o.off ELSE Len(body)],
                     bytes |-> SubSeq(body, o.off + 1, Len(body))]
      [] d.kind = "pipe_read" -> [fs |-> fs, bytes |-> <<"p">>]
      [] d.kind = "tty" -> [fs |-> fs, bytes |-> <<"t">>]
      [] OTHER -> [fs |-> fs, bytes |-> <<>>]

\* the external programs that read their standard input until end-of-file
ReadsStdin(prog) == prog \in {S_cat, S_wc}

\* what an external program writes to its standard output
Output(prog, input) ==
    CASE prog = S_ls -> <<"l">>
      [] prog = S_cat -> input
      [] prog = S_wc -> <<"n">>
      [] OTHER -> <<>>

\* what perror writes to standard error
ErrBytes == <<"!">>

\* the body a file has before the shell runs, when it exists
OldBytes == <<"o">>

(***************************************************************************)
(* State.                                                                  *)
(***************************************************************************)
VARIABLES
    ast,         \* the tree handed to run_command (immutable)
    home,        \* the value of HOME in the environment, <<>> when unset
    files,       \* the paths that exist in the file system
    content,     \* per path: the body of the file
    opens,       \* the open file descriptions open() has created, in order
    reads,       \* what the programs have read from a file on standard input
    nextPipe,    \* the pipes the kernel has created so far
    nextPid,     \* the next process id fork hands out
    status,      \* per process: "unused", "running", "zombie", "reaped"
    stack,       \* per process: the call stack of the engine, innermost frame last
    image,       \* per process: the program it runs (the shell, or an exec'ed one)
    fds,         \* per process: the descriptor table
    sig,         \* per process: the disposition of each signal
    cwd,         \* per process: the working directory
    parent,      \* per process: the process that forked it
    origin,      \* per process: the fork that created it (role and node)
    exitStatus,  \* per process: the status it terminated with
    exitCause,   \* per process: the statement that terminated it
    exitNode,    \* per process: the node it was executing when it terminated
    terminated,  \* the processes in the order they terminated
    visited,     \* the (process, node) pairs run_command has dispatched
    execCalls,   \* the calls of execvp
    diag,        \* the diagnostics written to standard error
    pipeRets     \* the returns of execute_pipe in the calling process

vars ==
    <<ast, home, files, content, opens, reads, nextPipe, nextPid, status, stack,
      image, fds, sig, cwd, parent, origin, exitStatus, exitCause, exitNode,
      terminated, visited, execCalls, diag, pipeRets>>

S_shell == <<"v", "u", "s", "h">>

Default == [s \in Signals |-> "SIG_DFL"]
Ignored == [s \in Signals |-> "SIG_IGN"]

\* a stack frame: the function, its node, the position in it and its locals
Frame(fn, node, pc) ==
    [fn |-> fn, node |-> node, pc |-> pc, i |-> 0, pid |-> 0, pids |-> <<>>,
     pipes |-> <<>>, pobj |-> <<>>, fds0 |-> NoFds]

Top(p) == stack[p][Len(stack[p])]
Rest(p) == SubSeq(stack[p], 1, Len(stack[p]) - 1)
At(p, pc) == status[p] = "running" /\ stack[p] # <<>> /\ Top(p).pc = pc
Node(p) == ast[Top(p).node]

Goto(p, f) == stack' = [stack EXCEPT ![p] = Append(Rest(p), f)]
Return(p) == stack' = [stack EXCEPT ![p] = Rest(p)]
\* the call run_command(node) from frame f, which resumes at f afterwards
Call(p, f, node) ==
    stack' = [stack EXCEPT ![p] = Append(Append(Rest(p), f), Frame("run_command", node, "run_command"))]

\* the file system as a value
Fs == [content |-> content, opens |-> opens]

\* perror/fprintf(stderr, ...) by process p in file system fs: the message
\* goes to whatever standard error refers to
SayOn(p, node, msg, fs) ==
    /\ diag' = diag \cup {[pid |-> p, node |-> node, msg |-> msg]}
    /\ LET fs2 == WriteFs(fs, fds[p][STDERR_FILENO], ErrBytes)
       IN  content' = fs2.content /\ opens' = fs2.opens

Say(p, node, msg) == SayOn(p, node, msg, Fs)

\* no diagnostic is written
Quiet == UNCHANGED <<diag, content, opens>>

\* some process holds the file of the path open for writing
HasWriter(path) ==
    \E q \in Pids, f \in Fds :
        /\ fds[q][f].kind = "file"
        /\ opens[fds[q][f].id].path = PathId(path)
        /\ opens[fds[q][f].id].flags # O_RDONLY

\* end-of-file on a description: always on a file or a terminal, on a pipe
\* once no descriptor of any process refers to its write end
AtEof(d) ==
    d.kind = "pipe_read" => \A q \in Pids, f \in Fds : fds[q][f] # PipeWrite(d.id)

\* exit(code): the process ends, its descriptors are closed, its parent may reap it
Terminate(p, code, cause, node) ==
    /\ status' = [status EXCEPT ![p] = "zombie"]
    /\ stack' = [stack EXCEPT ![p] = <<>>]
    /\ fds' = [fds EXCEPT ![p] = NoFds]
    /\ exitStatus' = [exitStatus EXCEPT ![p] = WaitStatus(code)]
    /\ exitCause' = [exitCause EXCEPT ![p] = cause]
    /\ exitNode' = [exitNode EXCEPT ![p] = node]
    /\ terminated' = Append(terminated, p)

\* fork() can succeed while a process id is left
CanFork == nextPid <= MaxProcs

\* a successful fork(): the child is a copy of the parent that continues in
\* frame cf, the parent continues in frame pf
Fork(p, pf, cf, role, node) ==
    LET c == nextPid
    IN  /\ nextPid' = nextPid + 1
        /\ status' = [status EXCEPT ![c] = "running"]
        /\ stack' = [stack EXCEPT ![p] = Append(Rest(p), pf), ![c] = Append(Rest(p), cf)]
        /\ image' = [image EXCEPT ![c] = image[p]]
        /\ fds' = [fds EXCEPT ![c] = fds[p]]
        /\ sig' = [sig EXCEPT ![c] = sig[p]]
        /\ cwd' = [cwd EXCEPT ![c] = cwd[p]]
        /\ parent' = [parent EXCEPT ![c] = p]
        /\ origin' = [origin EXCEPT ![c] = [role |-> role, node |-> node]]

\* waitpid(pid, ..., 0) returns once the child is a zombie, and reaps it
CanWait(c) == status[c] = "zombie"
Reap(c) == status' = [status EXCEPT ![c] = "reaped"]

RECURSIVE SubTree(_, _)
\* the nodes of the sub-tree of tree t rooted at n
SubTree(t, n) ==
    IF n = NULL THEN {}
    ELSE {n} \cup SubTree(t, t[n].first) \cup SubTree(t, t[n].second)
             \cup SubTree(t, t[n].child)
             \cup UNION {SubTree(t, t[n].parts[k]) : k \in 1..t[n].n_parts}

\* whether a tree names a file: it holds a redirect with a target
UsesFile(t) ==
    \E n \in 1..Len(t) : t[n].type = "NODE_REDIRECT" /\ t[n].target # <<>>

\* whether a tree consults HOME: it holds a cd without argument
UsesHome(t) ==
    \E n \in 1..Len(t) : t[n].type = "NODE_COMMAND" /\ t[n].program = S_cd /\ t[n].argc < 2

Init ==
    /\ ast \in Trees
    /\ home \in IF UsesHome(ast) THEN HomeValues ELSE {S_home}
    /\ files \in IF UsesFile(ast) THEN {{}, {S_file}} ELSE {{}}
    /\ content = [k \in 1..Len(Paths) |-> IF Paths[k] \in files THEN OldBytes ELSE <<>>]
    /\ opens = <<>>
    /\ reads = {}
    /\ nextPipe = 1
    /\ nextPid = Shell + 1
    /\ status = [p \in Pids |-> IF p = Shell THEN "running" ELSE "unused"]
    /\ stack = [p \in Pids |-> IF p = Shell THEN <<Frame("main", 1, "main_init")>> ELSE <<>>]
    /\ image = [p \in Pids |-> IF p = Shell THEN S_shell ELSE <<>>]
    /\ fds = [p \in Pids |-> IF p = Shell THEN StdFds ELSE NoFds]
    /\ sig = [p \in Pids |-> Default]
    /\ cwd = [p \in Pids |-> S_root]
    /\ parent = [p \in Pids |-> 0]
    /\ origin = [p \in Pids |-> [role |-> IF p = Shell THEN "shell" ELSE "none", node |-> NULL]]
    /\ exitStatus = [p \in Pids |-> -1]
    /\ exitCause = [p \in Pids |-> "none"]
    /\ exitNode = [p \in Pids |-> NULL]
    /\ terminated = <<>>
    /\ visited = {}
    /\ execCalls = {}
    /\ diag = {}
    /\ pipeRets = {}

(***************************************************************************)
(* The shell's start-up and its call of the engine.                        *)
(***************************************************************************)
initialize(p) ==
    /\ At(p, "main_init")
    /\ sig' = [sig EXCEPT ![p] = Ignored]
    /\ Goto(p, [Top(p) EXCEPT !.pc = "main_call"])
    /\ UNCHANGED <<ast, home, files, content, opens, reads, nextPipe, nextPid, status, image, fds, cwd,
                   parent, origin, exitStatus, exitCause, exitNode, terminated,
                   visited, execCalls, diag, pipeRets>>

\* the read-eval loop hands the parsed tree to run_command
main_call(p) ==
    /\ At(p, "main_call")
    /\ Call(p, [Top(p) EXCEPT !.pc = "main_done"], Top(p).node)
    /\ UNCHANGED <<ast, home, files, content, opens, reads, nextPipe, nextPid, status, image, fds, sig,
                   cwd, parent, origin, exitStatus, exitCause, exitNode,
                   terminated, visited, execCalls, diag, pipeRets>>

(***************************************************************************)
(* run_command: the dispatch on the node's type.                           *)
(***************************************************************************)
\* the first position of the function that executes a node of the type
EntryOf(type) ==
    CASE type = "NODE_COMMAND" -> <<"execute_command", "command">>
      [] type = "NODE_SEQUENCE" -> <<"execute_sequence", "seq_first">>
      [] type = "NODE_PIPE" -> <<"execute_pipe", "pipe_create">>
      [] type = "NODE_REDIRECT" -> <<"execute_redirect", "redirect_fork">>
      [] OTHER -> <<"none", "none">>

run_command(p) ==
    /\ At(p, "run_command")
    /\ LET n == Top(p).node
           e == EntryOf(IF n = NULL THEN "NULL" ELSE ast[n].type)
       IN  IF n = NULL
           THEN Return(p) /\ UNCHANGED visited /\ Quiet
           ELSE /\ visited' = visited \cup {<<p, n>>}
                /\ IF e[1] = "none"
                   THEN /\ Return(p)
                        /\ Say(p, n, IF ast[n].type \in {"NODE_SUBSHELL", "NODE_DETACH"}
                                     THEN "not yet implemented" ELSE "Unknown node type")
                   ELSE /\ Goto(p, [Frame(e[1], n, e[2]) EXCEPT !.fds0 = fds[p]])
                        /\ Quiet
    /\ UNCHANGED <<ast, home, files, reads, nextPipe, nextPid, status, image, fds, sig,
                   cwd, parent, origin, exitStatus, exitCause, exitNode,
                   terminated, execCalls, pipeRets>>

(***************************************************************************)
(* execute_command: the built-ins exit and cd, and the process launcher.   *)
(***************************************************************************)
\* an exit that parses argv[0], the program name
ExitCode_argv0(node) == atoi(node.argv[1])

\* the argument of exit(): atoi(argv[1]) when there is an argument, else 0
ExitCode(node) == IF node.argc > 1 THEN atoi(node.argv[2]) ELSE 0

builtin_exit(p) ==
    /\ At(p, "command")
    /\ Node(p).program = S_exit
    /\ Terminate(p, ExitCode(Node(p)), "builtin", Top(p).node)
    /\ UNCHANGED <<ast, home, files, content, opens, reads, nextPipe, nextPid, image, sig, cwd, parent,
                   origin, visited, execCalls, diag, pipeRets>>

\* a cd that goes to HOME whatever its argument
CdPath_alwaysHome(node, h) == h

\* the directory cd goes to: argv[1], or the value of HOME without argument
CdPath(node, h) == IF node.argc < 2 THEN h ELSE node.argv[2]

\* cd without argument and without HOME
CdMissingEnv(node, h) == node.argc < 2 /\ h = <<>>

\* chdir(path) succeeds on an existing directory
ChdirOk(path) == path \in Dirs

\* the working directory after chdir(path) from directory d
Chdir(d, path) == IF ChdirOk(path) THEN path ELSE d

builtin_cd(p) ==
    /\ At(p, "command")
    /\ Node(p).program = S_cd
    /\ LET path == CdPath(Node(p), home)
       IN  IF CdMissingEnv(Node(p), home)
           THEN Say(p, Top(p).node, "cd: HOME not set") /\ UNCHANGED cwd
           ELSE /\ cwd' = [cwd EXCEPT ![p] = Chdir(cwd[p], path)]
                /\ IF ChdirOk(path) THEN Quiet ELSE Say(p, Top(p).node, "cd")
    /\ Return(p)
    /\ UNCHANGED <<ast, home, files, reads, nextPipe, nextPid, status, image, fds, sig,
                   parent, origin, exitStatus, exitCause, exitNode, terminated,
                   visited, execCalls, pipeRets>>

\* a fork failure that is treated as fatal
command_fork_failed_exits(p) ==
    /\ Say(p, Top(p).node, "fork")
    /\ Terminate(p, 1, "exec_failed", Top(p).node)
    /\ UNCHANGED <<ast, home, files, reads, nextPipe, nextPid, image, sig, cwd, parent,
                   origin, visited, execCalls, pipeRets>>

\* fork() returned -1: a diagnostic, and the command is given up
command_fork_failed(p) ==
    /\ Say(p, Top(p).node, "fork")
    /\ Return(p)
    /\ UNCHANGED <<ast, home, files, reads, nextPipe, nextPid, status, image, fds, sig,
                   cwd, parent, origin, exitStatus, exitCause, exitNode,
                   terminated, visited, execCalls, pipeRets>>

command_forked(p) ==
    /\ Fork(p, [Top(p) EXCEPT !.pc = "command_wait", !.pid = nextPid],
               [Top(p) EXCEPT !.pc = "command_child"], "command", Top(p).node)
    /\ UNCHANGED <<ast, home, files, content, opens, reads, nextPipe, exitStatus, exitCause, exitNode,
                   terminated, visited, execCalls, diag, pipeRets>>

command_fork(p) ==
    /\ At(p, "command")
    /\ Node(p).program \notin BuiltIns
    /\ \/ CanFork /\ command_forked(p)
       \/ command_fork_failed(p)

\* the child restores the default handlers of the three signals
command_child_signals(p) ==
    /\ At(p, "command_child")
    /\ sig' = [sig EXCEPT ![p] = Default]
    /\ Goto(p, [Top(p) EXCEPT !.pc = "command_exec"])
    /\ UNCHANGED <<ast, home, files, content, opens, reads, nextPipe, nextPid, status, image, fds, cwd,
                   parent, origin, exitStatus, exitCause, exitNode, terminated,
                   visited, execCalls, diag, pipeRets>>

\* the record of a call execvp(program, argv) by process p
ExecCall(p, n, role) ==
    [pid |-> p, node |-> n, program |-> ast[n].program, role |-> role,
     sig |-> sig[p], stdin |-> fds[p][STDIN_FILENO], stdout |-> fds[p][STDOUT_FILENO]]

\* execvp succeeded: the process runs the program from now on
Exec(p, n) ==
    /\ image' = [image EXCEPT ![p] = ast[n].program]
    /\ stack' = [stack EXCEPT ![p] = <<>>]
    /\ UNCHANGED <<status, fds, exitStatus, exitCause, exitNode, terminated>>
    /\ Quiet

\* a child that returns to its caller after a failed execvp
ExecFailed_returns(p, n) ==
    /\ Say(p, n, "exec")
    /\ Return(p)
    /\ UNCHANGED <<status, fds, exitStatus, exitCause, exitNode, terminated, image>>

\* execvp failed: perror(program); exit(1)
ExecFailed(p, n) ==
    /\ Say(p, n, "exec")
    /\ Terminate(p, 1, "exec_failed", n)
    /\ UNCHANGED image

command_exec(p) ==
    /\ At(p, "command_exec")
    /\ execCalls' = execCalls \cup {ExecCall(p, Top(p).node, "command")}
    /\ \/ Exec(p, Top(p).node)
       \/ ExecFailed(p, Top(p).node)
    /\ UNCHANGED <<ast, home, files, reads, nextPipe, nextPid, sig, cwd, parent, origin,
                   visited, pipeRets>>

\* a launcher that polls its child (WNOHANG) instead of waiting for it
command_wait_nohang(p) ==
    /\ At(p, "command_wait")
    /\ IF CanWait(Top(p).pid) THEN Reap(Top(p).pid) ELSE UNCHANGED status
    /\ Return(p)
    /\ UNCHANGED <<ast, home, files, content, opens, reads, nextPipe, nextPid, image,
                   fds, sig, cwd, parent, origin, exitStatus, exitCause, exitNode,
                   terminated, visited, execCalls, diag, pipeRets>>

\* the parent waits for the child to finish
command_wait(p) ==
    /\ At(p, "command_wait")
    /\ CanWait(Top(p).pid)
    /\ Reap(Top(p).pid)
    /\ Return(p)
    /\ UNCHANGED <<ast, home, files, content, opens, reads, nextPipe, nextPid, image, fds, sig, cwd,
                   parent, origin, exitStatus, exitCause, exitNode, terminated,
                   visited, execCalls, diag, pipeRets>>

\* an exec'ed program runs to its end: it reads its standard input to
\* end-of-file if it is a reader, writes its output and exits with a status
\* of its own
program_exit(p) ==
    /\ status[p] = "running"
    /\ stack[p] = <<>>
    /\ ReadsStdin(image[p]) => AtEof(fds[p][STDIN_FILENO])
    /\ LET d == fds[p][STDIN_FILENO]
           got == IF ReadsStdin(image[p]) THEN ReadFs(Fs, d) ELSE [fs |-> Fs, bytes |-> <<>>]
           fs2 == WriteFs(got.fs, fds[p][STDOUT_FILENO], Output(image[p], got.bytes))
       IN  /\ content' = fs2.content
           /\ opens' = fs2.opens
           /\ reads' = IF ReadsStdin(image[p]) /\ d.kind = "file"
                       THEN reads \cup {[pid |-> p, inst |-> d.id, bytes |-> got.bytes,
                                         last |-> Len(opens)]}
                       ELSE reads
    /\ \E code \in {0, 1} : Terminate(p, code, "program", origin[p].node)
    /\ UNCHANGED <<ast, home, files, nextPipe, nextPid, image, sig, cwd, parent,
                   origin, visited, execCalls, diag, pipeRets>>

(***************************************************************************)
(* execute_sequence.                                                       *)
(***************************************************************************)
sequence_first(p) ==
    /\ At(p, "seq_first")
    /\ Call(p, [Top(p) EXCEPT !.pc = "seq_second"], Node(p).first)
    /\ UNCHANGED <<ast, home, files, content, opens, reads, nextPipe, nextPid, status, image, fds, sig,
                   cwd, parent, origin, exitStatus, exitCause, exitNode,
                   terminated, visited, execCalls, diag, pipeRets>>

\* a sequencer that gives up after its first sub-tree
sequence_second_skipped(p) ==
    /\ At(p, "seq_second")
    /\ Return(p)
    /\ UNCHANGED <<ast, home, files, content, opens, reads, nextPipe, nextPid, status, image, fds, sig,
                   cwd, parent, origin, exitStatus, exitCause, exitNode,
                   terminated, visited, execCalls, diag, pipeRets>>

sequence_second(p) ==
    /\ At(p, "seq_second")
    /\ Call(p, [Top(p) EXCEPT !.pc = "seq_done"], Node(p).second)
    /\ UNCHANGED <<ast, home, files, content, opens, reads, nextPipe, nextPid, status, image, fds, sig,
                   cwd, parent, origin, exitStatus, exitCause, exitNode,
                   terminated, visited, execCalls, diag, pipeRets>>

sequence_return(p) ==
    /\ At(p, "seq_done")
    /\ Return(p)
    /\ UNCHANGED <<ast, home, files, content, opens, reads, nextPipe, nextPid, status, image, fds, sig,
                   cwd, parent, origin, exitStatus, exitCause, exitNode,
                   terminated, visited, execCalls, diag, pipeRets>>

(***************************************************************************)
(* execute_pipe: the pipeline coordinator.                                 *)
(***************************************************************************)
\* the record of a return of execute_pipe in the process that called it
PipeRet(p, how, after) ==
    [pid |-> p, node |-> Top(p).node, how |-> how, pipes |-> Top(p).pipes,
     pobj |-> Top(p).pobj, pids |-> Top(p).pids, before |-> Top(p).fds0,
     after |-> after]

\* pipe(pipes[i]) succeeded: two new descriptors, the lowest that are free
pipe_created(p) ==
    LET f == Top(p)
        r == LowestFree(fds[p])
        w == LowestFree([fds[p] EXCEPT ![r] = PipeRead(nextPipe)])
        g == [f EXCEPT !.pipes = Append(@, <<r, w>>), !.pobj = Append(@, nextPipe),
                       !.i = @ + 1]
    IN  /\ fds' = [fds EXCEPT ![p] = [@ EXCEPT ![r] = PipeRead(nextPipe),
                                               ![w] = PipeWrite(nextPipe)]]
        /\ nextPipe' = nextPipe + 1
        /\ Goto(p, IF g.i < Node(p).n_parts - 1 THEN g
                   ELSE [g EXCEPT !.pc = "pipe_fork", !.i = 0])
        /\ Quiet /\ UNCHANGED pipeRets

\* pipe(pipes[i]) failed: perror, free the arrays, return
pipe_create_failed(p) ==
    /\ Say(p, Top(p).node, "pipe")
    /\ pipeRets' = pipeRets \cup {PipeRet(p, "pipe_failed", fds[p])}
    /\ Return(p)
    /\ UNCHANGED <<fds, nextPipe>>

pipe_create(p) ==
    /\ At(p, "pipe_create")
    /\ \/ Cardinality(FreeFds(fds[p])) >= 2 /\ pipe_created(p)
       \/ pipe_create_failed(p)
    /\ UNCHANGED <<ast, home, files, reads, nextPid, status, image, sig, cwd, parent,
                   origin, exitStatus, exitCause, exitNode, terminated, visited,
                   execCalls>>

\* pids[i] = fork() succeeded; the child goes on to wire its stage
pipe_forked(p) ==
    LET f == Top(p)
        g == [f EXCEPT !.pids = Append(@, nextPid), !.i = @ + 1]
    IN  /\ Fork(p, IF g.i < Node(p).n_parts THEN g ELSE [g EXCEPT !.pc = "pipe_close"],
                   [f EXCEPT !.pc = "stage_wire"], "stage", Node(p).parts[f.i + 1])
        /\ Quiet /\ UNCHANGED pipeRets

\* a fork-failure path that forgets the cleanup loop
pipe_fork_failed_leaks(p) ==
    /\ Say(p, Top(p).node, "fork")
    /\ pipeRets' = pipeRets \cup {PipeRet(p, "fork_failed", fds[p])}
    /\ Return(p)
    /\ UNCHANGED <<fds, nextPid, status, image, sig, cwd, parent, origin>>

\* a fork-failure path that kills the stages it has forked
pipe_fork_failed_kills(p) ==
    /\ Say(p, Top(p).node, "fork")
    /\ fds' = [fds EXCEPT ![p] = ClosePipes(@, Top(p).pipes)]
    /\ pipeRets' = pipeRets \cup {PipeRet(p, "fork_failed", ClosePipes(fds[p], Top(p).pipes))}
    /\ Return(p)
    /\ status' = [q \in Pids |->
                    IF \E k \in 1..Len(Top(p).pids) : Top(p).pids[k] = q
                    THEN "zombie" ELSE status[q]]
    /\ UNCHANGED <<nextPid, image, sig, cwd, parent, origin>>

\* pids[i] = fork() failed: perror, close every pipe, free the arrays, return
pipe_fork_failed(p) ==
    /\ Say(p, Top(p).node, "fork")
    /\ fds' = [fds EXCEPT ![p] = ClosePipes(@, Top(p).pipes)]
    /\ pipeRets' = pipeRets \cup {PipeRet(p, "fork_failed", ClosePipes(fds[p], Top(p).pipes))}
    /\ Return(p)
    /\ UNCHANGED <<nextPid, status, image, sig, cwd, parent, origin>>

pipe_fork(p) ==
    /\ At(p, "pipe_fork")
    /\ \/ CanFork /\ pipe_forked(p)
       \/ pipe_fork_failed(p)
    /\ UNCHANGED <<ast, home, files, reads, nextPipe, exitStatus, exitCause, exitNode,
                   terminated, visited, execCalls>>

\* a wiring that leaves the descriptors of the pipes array open
StageFds_noClose(tab, pipes, i, n) ==
    LET t1 == IF i > 0 THEN Dup2(tab, pipes[i][1], STDIN_FILENO) ELSE tab
    IN  IF i < n - 1 THEN Dup2(t1, pipes[i + 1][2], STDOUT_FILENO) ELSE t1

\* a wiring that closes only the two descriptors the stage has duplicated
StageFds_closesOwn(tab, pipes, i, n) ==
    LET t1 == IF i > 0 THEN Close(Dup2(tab, pipes[i][1], STDIN_FILENO), pipes[i][1]) ELSE tab
    IN  IF i < n - 1 THEN Close(Dup2(t1, pipes[i + 1][2], STDOUT_FILENO), pipes[i + 1][2])
        ELSE t1

\* a wiring that takes the wrong end of the previous pipe
StageFds_wrongEnd(tab, pipes, i, n) ==
    LET t1 == IF i > 0 THEN Dup2(tab, pipes[i][2], STDIN_FILENO) ELSE tab
        t2 == IF i < n - 1 THEN Dup2(t1, pipes[i + 1][2], STDOUT_FILENO) ELSE t1
    IN  ClosePipes(t2, pipes)

\* the descriptor table of stage i of n after its dup2 calls and its closes
StageFds(tab, pipes, i, n) ==
    LET t1 == IF i > 0 THEN Dup2(tab, pipes[i][1], STDIN_FILENO) ELSE tab
        t2 == IF i < n - 1 THEN Dup2(t1, pipes[i + 1][2], STDOUT_FILENO) ELSE t1
    IN  ClosePipes(t2, pipes)

stage_wire(p) ==
    /\ At(p, "stage_wire")
    /\ fds' = [fds EXCEPT ![p] = StageFds(@, Top(p).pipes, Top(p).i, Node(p).n_parts)]
    /\ Goto(p, [Top(p) EXCEPT !.pc = "stage_exec"])
    /\ UNCHANGED <<ast, home, files, content, opens, reads, nextPipe, nextPid, status, image, sig, cwd,
                   parent, origin, exitStatus, exitCause, exitNode, terminated,
                   visited, execCalls, diag, pipeRets>>

\* node->pipe.parts[i], the node of the stage the child executes
StageNode(p) == Node(p).parts[Top(p).i + 1]

\* a stage that is a bare command is exec'ed directly
stage_exec(p) ==
    /\ At(p, "stage_exec")
    /\ ast[StageNode(p)].type = "NODE_COMMAND"
    /\ execCalls' = execCalls \cup {ExecCall(p, StageNode(p), "stage")}
    /\ \/ Exec(p, StageNode(p))
       \/ ExecFailed(p, StageNode(p))
    /\ UNCHANGED <<ast, home, files, reads, nextPipe, nextPid, sig, cwd, parent, origin,
                   visited, pipeRets>>

\* any other stage goes through run_command, and the child exits 0 after it
stage_recurse(p) ==
    /\ At(p, "stage_exec")
    /\ ast[StageNode(p)].type # "NODE_COMMAND"
    /\ Call(p, [Top(p) EXCEPT !.pc = "stage_exit"], StageNode(p))
    /\ UNCHANGED <<ast, home, files, content, opens, reads, nextPipe, nextPid, status, image, fds, sig,
                   cwd, parent, origin, exitStatus, exitCause, exitNode,
                   terminated, visited, execCalls, diag, pipeRets>>

stage_exit(p) ==
    /\ At(p, "stage_exit")
    /\ Terminate(p, 0, "stage_done", StageNode(p))
    /\ UNCHANGED <<ast, home, files, content, opens, reads, nextPipe, nextPid, image, sig, cwd, parent,
                   origin, visited, execCalls, diag, pipeRets>>

\* the parent closes every pipe once all stages are forked
pipe_close(p) ==
    /\ At(p, "pipe_close")
    /\ fds' = [fds EXCEPT ![p] = ClosePipes(@, Top(p).pipes)]
    /\ Goto(p, [Top(p) EXCEPT !.pc = "pipe_wait", !.i = 0])
    /\ UNCHANGED <<ast, home, files, content, opens, reads, nextPipe, nextPid, status, image, sig, cwd,
                   parent, origin, exitStatus, exitCause, exitNode, terminated,
                   visited, execCalls, diag, pipeRets>>

\* a wait loop that polls (WNOHANG) instead of blocking
pipe_wait_nohang(p) ==
    /\ At(p, "pipe_wait")
    /\ IF CanWait(Top(p).pids[Top(p).i + 1])
       THEN Reap(Top(p).pids[Top(p).i + 1])
       ELSE UNCHANGED status
    /\ IF Top(p).i + 1 < Node(p).n_parts
       THEN Goto(p, [Top(p) EXCEPT !.i = @ + 1]) /\ UNCHANGED pipeRets
       ELSE Return(p) /\ pipeRets' = pipeRets \cup {PipeRet(p, "done", fds[p])}
    /\ UNCHANGED <<ast, home, files, content, opens, reads, nextPipe, nextPid, image, fds, sig, cwd,
                   parent, origin, exitStatus, exitCause, exitNode, terminated,
                   visited, execCalls, diag>>

\* waitpid(pids[i], NULL, 0) for each stage in turn, then free and return
pipe_wait(p) ==
    /\ At(p, "pipe_wait")
    /\ CanWait(Top(p).pids[Top(p).i + 1])
    /\ Reap(Top(p).pids[Top(p).i + 1])
    /\ IF Top(p).i + 1 < Node(p).n_parts
       THEN Goto(p, [Top(p) EXCEPT !.i = @ + 1]) /\ UNCHANGED pipeRets
       ELSE Return(p) /\ pipeRets' = pipeRets \cup {PipeRet(p, "done", fds[p])}
    /\ UNCHANGED <<ast, home, files, content, opens, reads, nextPipe, nextPid, image, fds, sig, cwd,
                   parent, origin, exitStatus, exitCause, exitNode, terminated,
                   visited, execCalls, diag>>

(***************************************************************************)
(* execute_redirect: the redirect wrapper.                                 *)
(***************************************************************************)
\* a redirect wrapper that gives up the target descriptor before it forks, so
\* that the calling process loses it too
redirect_forked_rewired(p) ==
    LET c == nextPid
        target_fd == IF Node(p).fd < 0 THEN STDOUT_FILENO ELSE Node(p).fd
        tab == Close(fds[p], target_fd)
    IN  /\ nextPid' = nextPid + 1
        /\ status' = [status EXCEPT ![c] = "running"]
        /\ stack' = [stack EXCEPT
                        ![p] = Append(Rest(p), [Top(p) EXCEPT !.pc = "redirect_wait", !.pid = c]),
                        ![c] = Append(Rest(p), [Top(p) EXCEPT !.pc = "redirect_child"])]
        /\ image' = [image EXCEPT ![c] = image[p]]
        /\ fds' = [fds EXCEPT ![p] = tab, ![c] = tab]
        /\ sig' = [sig EXCEPT ![c] = sig[p]]
        /\ cwd' = [cwd EXCEPT ![c] = cwd[p]]
        /\ parent' = [parent EXCEPT ![c] = p]
        /\ origin' = [origin EXCEPT ![c] = [role |-> "redirect", node |-> Top(p).node]]
        /\ Quiet

redirect_forked(p) ==
    /\ Fork(p, [Top(p) EXCEPT !.pc = "redirect_wait", !.pid = nextPid],
               [Top(p) EXCEPT !.pc = "redirect_child"], "redirect", Top(p).node)
    /\ Quiet

redirect_fork_failed(p) ==
    /\ Say(p, Top(p).node, "fork")
    /\ Return(p)
    /\ UNCHANGED <<nextPid, status, image, fds, sig, cwd, parent, origin>>

redirect_fork(p) ==
    /\ At(p, "redirect_fork")
    /\ \/ CanFork /\ redirect_forked(p)
       \/ redirect_fork_failed(p)
    /\ UNCHANGED <<ast, home, files, reads, nextPipe, exitStatus, exitCause, exitNode,
                   terminated, visited, execCalls, pipeRets>>

\* the outcome of the switch on the mode in the child: whether the wrapped
\* sub-tree is reached, the descriptor table and the file system after it,
\* the diagnostic of a failure and whether open() succeeded; perm says
\* whether open is permitted, inst is the description open() creates
RedirectResult(tab, node, fs, perm, inst) ==
    LET file_fd == LowestFree(tab)
        opened == [tab EXCEPT ![file_fd] = File(inst)]
        target_fd == IF node.fd < 0 THEN STDOUT_FILENO ELSE node.fd
        fail(m, fs2) == [ok |-> FALSE, fds |-> tab, files |-> fs2, msg |-> m,
                         opened |-> m = "dup2" /\ node.mode # "REDIRECT_DUP"]
        done(t, fs2) == [ok |-> TRUE, fds |-> t, files |-> fs2, msg |-> "none",
                         opened |-> node.mode # "REDIRECT_DUP"]
    IN  CASE node.mode = "REDIRECT_INPUT" ->
               IF ~(perm /\ node.target \in fs /\ FreeFds(tab) # {})
               THEN fail("open", fs)
               ELSE done(Close(Dup2(opened, file_fd, STDIN_FILENO), file_fd), fs)
          [] node.mode \in {"REDIRECT_OUTPUT", "REDIRECT_APPEND"} ->
               IF ~(perm /\ FreeFds(tab) # {})
               THEN fail("open", fs)
               ELSE IF ~Dup2Ok(opened, file_fd, target_fd)
               THEN fail("dup2", fs \cup {node.target})
               ELSE LET t1 == Dup2(opened, file_fd, target_fd)
                        t2 == IF node.fd < 0 THEN Dup2(t1, file_fd, STDERR_FILENO) ELSE t1
                    IN  done(Close(t2, file_fd), fs \cup {node.target})
          [] node.mode = "REDIRECT_DUP" ->
               IF ~Dup2Ok(tab, node.fd2, node.fd)
               THEN fail("dup2", fs)
               ELSE done(Dup2(tab, node.fd2, node.fd), fs)
          [] OTHER -> fail("Unknown redirect type", fs)

\* a redirect child whose failure branches lack the exit(1)
redirect_child_falls_through(p) ==
    /\ At(p, "redirect_child")
    /\ \E perm \in BOOLEAN :
         LET r == RedirectResult(fds[p], Node(p), files, perm, Len(opens) + 1)
             fs == IF r.opened
                   THEN OpenFs(Fs, Node(p).target, OpenFlags(Node(p).mode),
                               ~HasWriter(Node(p).target), Top(p).node)
                   ELSE Fs
         IN  /\ files' = r.files
             /\ fds' = [fds EXCEPT ![p] = r.fds]
             /\ Call(p, [Top(p) EXCEPT !.pc = "redirect_exit"], Node(p).child)
             /\ UNCHANGED <<status, exitStatus, exitCause, exitNode, terminated>>
             /\ IF r.ok
                THEN content' = fs.content /\ opens' = fs.opens /\ UNCHANGED diag
                ELSE SayOn(p, Top(p).node, r.msg, fs)
    /\ UNCHANGED <<ast, home, reads, nextPipe, nextPid, image, sig, cwd, parent,
                   origin, visited, execCalls, pipeRets>>

redirect_child(p) ==
    /\ At(p, "redirect_child")
    /\ \E perm \in BOOLEAN :
         LET r == RedirectResult(fds[p], Node(p), files, perm, Len(opens) + 1)
             fs == IF r.opened
                   THEN OpenFs(Fs, Node(p).target, OpenFlags(Node(p).mode),
                               ~HasWriter(Node(p).target), Top(p).node)
                   ELSE Fs
         IN  /\ files' = r.files
             /\ IF r.ok
                THEN /\ fds' = [fds EXCEPT ![p] = r.fds]
                     /\ content' = fs.content
                     /\ opens' = fs.opens
                     /\ Call(p, [Top(p) EXCEPT !.pc = "redirect_exit"], Node(p).child)
                     /\ UNCHANGED <<status, exitStatus, exitCause, exitNode,
                                    terminated, diag>>
                ELSE /\ SayOn(p, Top(p).node, r.msg, fs)
                     /\ Terminate(p, 1, "redirect_failed", Top(p).node)
    /\ UNCHANGED <<ast, home, reads, nextPipe, nextPid, image, sig, cwd, parent,
                   origin, visited, execCalls, pipeRets>>

redirect_exit(p) ==
    /\ At(p, "redirect_exit")
    /\ Terminate(p, 0, "redirect_done", Top(p).node)
    /\ UNCHANGED <<ast, home, files, content, opens, reads, nextPipe, nextPid, image, sig, cwd, parent,
                   origin, visited, execCalls, diag, pipeRets>>

\* a redirect wrapper that returns without waiting for its child
redirect_wait_skipped(p) ==
    /\ At(p, "redirect_wait")
    /\ Return(p)
    /\ UNCHANGED <<ast, home, files, content, opens, reads, nextPipe, nextPid, status,
                   image, fds, sig, cwd, parent, origin, exitStatus, exitCause,
                   exitNode, terminated, visited, execCalls, diag, pipeRets>>

redirect_wait(p) ==
    /\ At(p, "redirect_wait")
    /\ CanWait(Top(p).pid)
    /\ Reap(Top(p).pid)
    /\ Return(p)
    /\ UNCHANGED <<ast, home, files, content, opens, reads, nextPipe, nextPid, image, fds, sig, cwd,
                   parent, origin, exitStatus, exitCause, exitNode, terminated,
                   visited, execCalls, diag, pipeRets>>

(***************************************************************************)
(* The specification.                                                      *)
(***************************************************************************)
Next ==
    \E p \in Pids :
        \/ initialize(p)
        \/ main_call(p)
        \/ run_command(p)
        \/ builtin_exit(p)
        \/ builtin_cd(p)
        \/ command_fork(p)
        \/ command_child_signals(p)
        \/ command_exec(p)
        \/ command_wait(p)
        \/ program_exit(p)
        \/ sequence_first(p)
        \/ sequence_second(p)
        \/ sequence_return(p)
        \/ pipe_create(p)
        \/ pipe_fork(p)
        \/ stage_wire(p)
        \/ stage_exec(p)
        \/ stage_recurse(p)
        \/ stage_exit(p)
        \/ pipe_close(p)
        \/ pipe_wait(p)
        \/ redirect_fork(p)
        \/ redirect_child(p)
        \/ redirect_exit(p)
        \/ redirect_wait(p)

Spec == Init /\ [][Next]_vars

(***************************************************************************)
(* The engine when fork() and pipe() always succeed, under a scheduler     *)
(* that lets every process that can take a step take one: the kernel runs  *)
(* every runnable process, and a waitpid returns once its child has ended. *)
(***************************************************************************)
command_fork_ok(p) == command_fork(p) /\ nextPid' # nextPid

pipe_create_ok(p) == pipe_create(p) /\ nextPipe' # nextPipe

pipe_fork_ok(p) == pipe_fork(p) /\ nextPid' # nextPid

redirect_fork_ok(p) == redirect_fork(p) /\ nextPid' # nextPid

LiveStep(p) ==
    \/ initialize(p)
    \/ main_call(p)
    \/ run_command(p)
    \/ builtin_exit(p)
    \/ builtin_cd(p)
    \/ command_fork_ok(p)
    \/ command_child_signals(p)
    \/ command_exec(p)
    \/ command_wait(p)
    \/ program_exit(p)
    \/ sequence_first(p)
    \/ sequence_second(p)
    \/ sequence_return(p)
    \/ pipe_create_ok(p)
    \/ pipe_fork_ok(p)
    \/ stage_wire(p)
    \/ stage_exec(p)
    \/ stage_recurse(p)
    \/ stage_exit(p)
    \/ pipe_close(p)
    \/ pipe_wait(p)
    \/ redirect_fork_ok(p)
    \/ redirect_child(p)
    \/ redirect_exit(p)
    \/ redirect_wait(p)

LiveNext == \E p \in Pids : LiveStep(p)

LiveSpec == Init /\ [][LiveNext]_vars /\ \A p \in Pids : WF_vars(LiveStep(p))

(***************************************************************************)
(* Vocabulary of the properties.                                           *)
(***************************************************************************)
\* process p is inside execute_pipe
InPipe(p) == status[p] = "running" /\ stack[p] # <<>> /\ Top(p).fn = "execute_pipe"

\* in this step the innermost function of p returns to its caller
Returns(p) == status'[p] = "running" /\ stack'[p] = Rest(p)

\* every descriptor of the pipes array is closed in table tab
PipesClosed(tab, pipes) ==
    \A k \in 1..Len(pipes) : ~IsOpen(tab, pipes[k][1]) /\ ~IsOpen(tab, pipes[k][2])

\* process p has ended, or is the shell to which run_command has returned
Finished(p) == status[p] \in {"zombie", "reaped"} \/ (p = Shell /\ At(p, "main_done"))

SequenceNodes == {n \in 1..Len(ast) : ast[n].type = "NODE_SEQUENCE"}

\* the place of process c in the order of termination
TermPos(c) == CHOOSE k \in 1..Len(terminated) : terminated[k] = c

(***************************************************************************)
(* C1: when the creation of pipe k fails, execute_pipe returns with no     *)
(* stage forked and with both descriptors of every pipe 0..k-1 closed in   *)
(* the calling process.                                                    *)
(***************************************************************************)
C1_PipeFailureReleasesFds ==
    [][\A p \in Pids :
         (InPipe(p) /\ Top(p).pc = "pipe_create" /\ Returns(p))
            => /\ Top(p).pids = <<>>
               /\ PipesClosed(fds'[p], Top(p).pipes)]_vars

(***************************************************************************)
(* C2: when execute_pipe returns in the calling process after all N-1      *)
(* pipes were created (all forks succeeded, or a fork failed), the         *)
(* descriptor table of that process is what it was before the call, with   *)
(* every pipe descriptor closed.                                           *)
(***************************************************************************)
C2_NoPipeFdLeak ==
    [][\A p \in Pids :
         (InPipe(p) /\ Len(Top(p).pipes) = Node(p).n_parts - 1 /\ Returns(p))
            => /\ fds'[p] = Top(p).fds0
               /\ PipesClosed(fds'[p], Top(p).pipes)]_vars

C2_Witness ==
    \E r \in pipeRets :
        /\ r.how = "fork_failed"
        /\ Len(r.pipes) = 2
        /\ Len(r.pids) = 1
        /\ fds[r.pid] = r.before

(***************************************************************************)
(* C3: with all N stages forked, the parent has closed every pipe          *)
(* descriptor when it waits, and execute_pipe has returned only when each  *)
(* of the N children has terminated and has been reaped.                   *)
(***************************************************************************)
C3_CloseThenReapAll ==
    /\ \A p \in Pids :
         At(p, "pipe_wait") => PipesClosed(fds[p], Top(p).pipes)
    /\ \A r \in pipeRets :
         r.how = "done"
            => /\ Len(r.pids) = ast[r.node].n_parts
               /\ \A k \in 1..Len(r.pids) : status[r.pids[k]] = "reaped"

\* a pipeline of three that returned although its last stage ended first
C3_Witness ==
    \E r \in pipeRets :
        /\ r.how = "done"
        /\ Len(r.pids) = 3
        /\ TermPos(r.pids[3]) < TermPos(r.pids[2])
        /\ TermPos(r.pids[2]) < TermPos(r.pids[1])

(***************************************************************************)
(* C4: when a stage child is about to execute its stage node, its standard *)
(* input is the read end of pipe i-1 (the inherited one for i = 0) and its *)
(* standard output the write end of pipe i (the inherited one for the last *)
(* stage), in every interleaving.                                          *)
(***************************************************************************)
C4_PositionalWiring ==
    \A p \in Pids :
        At(p, "stage_exec") =>
            LET f == Top(p)
                n == Node(p).n_parts
            IN  /\ fds[p][STDIN_FILENO] =
                      IF f.i > 0 THEN PipeRead(f.pobj[f.i]) ELSE f.fds0[STDIN_FILENO]
                /\ fds[p][STDOUT_FILENO] =
                      IF f.i < n - 1 THEN PipeWrite(f.pobj[f.i + 1]) ELSE f.fds0[STDOUT_FILENO]

\* the middle stage of three is wired while the first one is not yet
C4_Witness ==
    \E p, q \in Pids :
        /\ At(p, "stage_exec") /\ Top(p).i = 1 /\ Node(p).n_parts = 3
        /\ At(q, "stage_wire") /\ Top(q).i = 0 /\ Top(q).node = Top(p).node

(***************************************************************************)
(* C5: a Command node named exit or cd is handled by the built-in          *)
(* dispatcher of the process that reaches it, wherever it sits in the      *)
(* tree: no child is forked to launch it and execvp is never called on it. *)
(***************************************************************************)
C5_BuiltInsNeverExeced ==
    /\ \A e \in execCalls : e.program \notin BuiltIns
    /\ \A c \in Pids :
         origin[c].role = "command" => ast[origin[c].node].program \notin BuiltIns

(***************************************************************************)
(* C6: every process that calls execvp has the default disposition of      *)
(* SIGINT, SIGQUIT and SIGTSTP at that moment, and the shell keeps the     *)
(* three ignored from initialize on.                                       *)
(***************************************************************************)
C6_ExecWithDefaultSignals ==
    /\ \A e \in execCalls : e.sig = Default
    /\ (status[Shell] = "running" /\ ~At(Shell, "main_init")) => sig[Shell] = Ignored

(***************************************************************************)
(* C7: the shell process ends only by executing the exit built-in itself;  *)
(* every exit(1) and exit(0) of the engine is executed by a forked child;  *)
(* and until run_command has returned to the shell or exit has ended it,   *)
(* some process can always take a step, whatever failed.                   *)
(***************************************************************************)
C7_ShellEndsOnlyByExit ==
    /\ Finished(Shell) \/ ENABLED Next
    /\ status[Shell] # "running" => exitCause[Shell] = "builtin"
    /\ \A p \in Pids :
         exitCause[p] \in {"exec_failed", "stage_done", "redirect_failed", "redirect_done"}
            => p # Shell /\ parent[p] \in Pids /\ origin[p].role # "shell"
    /\ status[Shell] = "running" => stack[Shell] # <<>> /\ image[Shell] = S_shell

\* an exec and a redirection failed in children, and run_command returned
C7_Witness ==
    /\ At(Shell, "main_done")
    /\ \E p \in Pids : exitCause[p] = "redirect_failed"
    /\ \E p \in Pids : exitCause[p] = "exec_failed"

(***************************************************************************)
(* C8: in a process that has ended, or to which run_command has returned,  *)
(* the second sub-tree of every Sequence whose first sub-tree was executed *)
(* has been executed too, however the first one ended.                     *)
(***************************************************************************)
C8_SecondAlwaysRuns ==
    \A p \in Pids : \A n \in SequenceNodes :
        (Finished(p) /\ <<p, ast[n].first>> \in visited /\ ast[n].second # NULL)
            => <<p, ast[n].second>> \in visited

\* process p was ended by an exit built-in inside the first sub-tree of n
ExitedInFirst(p, n) ==
    exitCause[p] = "builtin" /\ exitNode[p] \in SubTree(ast, ast[n].first)

(***************************************************************************)
(* C8 as amended: the same, except for a process that the exit built-in    *)
(* terminated inside the first sub-tree.                                   *)
(***************************************************************************)
C8_SecondRunsUnlessExit ==
    \A p \in Pids : \A n \in SequenceNodes :
        (Finished(p) /\ <<p, ast[n].first>> \in visited /\ ast[n].second # NULL
           /\ ~ExitedInFirst(p, n))
            => <<p, ast[n].second>> \in visited

\* the first command could not be forked or exec'ed, a cd failed before
\* another, and the second sub-tree was run all the same
C8_Witness ==
    \E n \in SequenceNodes :
        /\ At(Shell, "main_done")
        /\ <<Shell, ast[n].second>> \in visited
        /\ \E d \in diag : d.node = ast[n].first /\ d.msg \in {"fork", "exec", "cd"}

(***************************************************************************)
(* Reading of C9's words, independent of atoi.                             *)
(***************************************************************************)
RECURSIVE Decimal(_)
\* the value of a string of digits
Decimal(s) ==
    IF s = <<>> THEN 0
    ELSE Decimal(SubSeq(s, 1, Len(s) - 1)) * 10 + DigitVal(s[Len(s)])

\* the string is an integer: an optional sign and one digit or more
IsInteger(s) ==
    LET d == IF s # <<>> /\ s[1] \in {"-", "+"} THEN Tail(s) ELSE s
    IN  d # <<>> /\ \A k \in 1..Len(d) : IsDigit(d[k])

IntegerOf(s) ==
    IF s[1] = "-" THEN 0 - Decimal(Tail(s))
    ELSE IF s[1] = "+" THEN Decimal(Tail(s)) ELSE Decimal(s)

\* the integer that starts the string: after leading white space, an optional
\* sign and the longest run of digits; 0 without digits there
LeadingInteger(s) ==
    LET start == CHOOSE k \in 1..(Len(s) + 1) :
                     /\ \A j \in 1..(k - 1) : IsSpace(s[j])
                     /\ k > Len(s) \/ ~IsSpace(s[k])
        sign == IF start <= Len(s) /\ s[start] \in {"-", "+"} THEN s[start] ELSE ""
        from == IF sign = "" THEN start ELSE start + 1
        to == CHOOSE m \in (from - 1)..Len(s) :
                     /\ \A j \in from..m : IsDigit(s[j])
                     /\ m = Len(s) \/ ~IsDigit(s[m + 1])
        v == Decimal(SubSeq(s, from, to))
    IN  IF sign = "-" THEN 0 - v ELSE v

\* after an exit built-in the process is gone and has run nothing that follows
NothingAfterExit(p) ==
    /\ status[p] # "running"
    /\ stack[p] = <<>>
    /\ \A n \in SequenceNodes :
         exitNode[p] \in SubTree(ast, ast[n].first) => <<p, ast[n].second>> \notin visited

(***************************************************************************)
(* C9: the exit built-in ends the process with the integer of argument 1   *)
(* as status when the argument is an integer, with 0 when it is absent or  *)
(* not numeric, and the process executes no node after it.                 *)
(***************************************************************************)
C9_ExitStatusIsArgument ==
    \A p \in Pids :
        exitCause[p] = "builtin" =>
            LET nd == ast[exitNode[p]]
            IN  /\ exitStatus[p] = IF nd.argc > 1 /\ IsInteger(nd.argv[2])
                                   THEN IntegerOf(nd.argv[2]) ELSE 0
                /\ NothingAfterExit(p)

(***************************************************************************)
(* C9 as amended: the status is the low 8 bits of the integer that starts  *)
(* argument 1 (white space, optional sign, longest run of digits), 0 when  *)
(* the argument is absent or starts with no such integer.                  *)
(***************************************************************************)
C9_ExitStatusIsAtoiLowByte ==
    \A p \in Pids :
        exitCause[p] = "builtin" =>
            LET nd == ast[exitNode[p]]
            IN  /\ exitStatus[p] = (IF nd.argc > 1 THEN LeadingInteger(nd.argv[2]) ELSE 0)
                                      % StatusRange
                /\ NothingAfterExit(p)

\* exit 299 ended the shell with status 43, before the command that follows
C9_Witness ==
    /\ exitCause[Shell] = "builtin"
    /\ ast[exitNode[Shell]].argc > 1
    /\ ast[exitNode[Shell]].argv[2] = <<"2", "9", "9">>
    /\ exitStatus[Shell] = 43
    /\ \E n \in SequenceNodes : ast[n].first = exitNode[Shell]

(***************************************************************************)
(* C10: cd takes the calling process to argument 1, or to HOME without     *)
(* argument; without argument and HOME, or when the change fails, the      *)
(* working directory stays, a diagnostic is written, and in every case no  *)
(* process is created and the caller goes on after the command.            *)
(***************************************************************************)
C10_CdBuiltIn ==
    [][\A p \in Pids :
         (At(p, "command") /\ Node(p).program = S_cd /\ stack'[p] # stack[p]) =>
            LET nd == Node(p)
                dest == IF nd.argc >= 2 THEN nd.argv[2] ELSE home
                fails == (nd.argc < 2 /\ home = <<>>) \/ dest \notin Dirs
            IN  /\ cwd'[p] = IF fails THEN cwd[p] ELSE dest
                /\ fails <=> (\E d \in diag' \ diag : d.pid = p)
                /\ nextPid' = nextPid
                /\ status' = status
                /\ stack'[p] = Rest(p)]_vars

\* cd without argument and without HOME: a diagnostic, the directory kept
C10_Witness ==
    \E d \in diag :
        /\ d.msg = "cd: HOME not set"
        /\ cwd[d.pid] = S_root
        /\ status[d.pid] = "running"
        /\ home = <<>>

(***************************************************************************)
(* Vocabulary of the redirect wrapper.                                     *)
(***************************************************************************)
\* the descriptor a redirect of node n aims at
TargetFd(n) == IF ast[n].fd < 0 THEN STDOUT_FILENO ELSE ast[n].fd

\* with descriptor table tab and the files that exist, the open or a dup2 of
\* the redirect of node n cannot succeed
RedirectMustFail(tab, n) ==
    CASE ast[n].mode = "REDIRECT_INPUT" ->
           ast[n].target \notin files \/ FreeFds(tab) = {}
      [] ast[n].mode \in {"REDIRECT_OUTPUT", "REDIRECT_APPEND"} ->
           FreeFds(tab) = {} \/ TargetFd(n) \notin Fds
      [] ast[n].mode = "REDIRECT_DUP" ->
           ~IsOpen(tab, ast[n].fd2) \/ ast[n].fd \notin Fds
      [] OTHER -> TRUE

\* process p has dispatched no node, called no execvp and forked no process
DidNothing(p) ==
    /\ \A n \in 1..Len(ast) : <<p, n>> \notin visited
    /\ \A e \in execCalls : e.pid # p
    /\ \A c \in Pids : parent[c] # p

\* in this step process p enters run_command on node n
Enters(p, n) ==
    /\ status'[p] = "running"
    /\ Len(stack'[p]) = Len(stack[p]) + 1
    /\ stack'[p][Len(stack'[p])] = Frame("run_command", n, "run_command")

(***************************************************************************)
(* C11: in the child of a Redirect, a failure of the open or of a dup2     *)
(* ends the child with status 1 before the wrapped sub-tree: the child     *)
(* either enters the sub-tree with the redirect in place or terminates     *)
(* with status 1, it terminates whenever the open or the dup2 cannot       *)
(* succeed, and a child that ended so has dispatched no node, exec'ed no   *)
(* program and forked no process.                                          *)
(***************************************************************************)
C11_FailedRedirectRunsNothing ==
    [][\A p \in Pids :
         /\ (At(p, "redirect_child") /\ stack'[p] # stack[p])
               => /\ RedirectMustFail(fds[p], Top(p).node) => status'[p] = "zombie"
                  /\ \/ Enters(p, Node(p).child)
                     \/ /\ status'[p] = "zombie"
                        /\ exitStatus'[p] = 1
                        /\ exitCause'[p] = "redirect_failed"
                        /\ \E d \in diag' \ diag : d.pid = p
         /\ exitCause'[p] = "redirect_failed"
               => /\ origin'[p].role = "redirect"
                  /\ exitStatus'[p] = 1
                  /\ status'[p] \in {"zombie", "reaped"}
                  /\ DidNothing(p)']_vars

\* the shell is back from a Redirect whose child failed in a dup2, after the
\* open had succeeded, and from nothing else
C11_Witness ==
    /\ At(Shell, "main_done")
    /\ \E p \in Pids :
         /\ exitCause[p] = "redirect_failed"
         /\ ast[origin[p].node].mode = "REDIRECT_APPEND"
         /\ \E d \in diag : d.pid = p /\ d.msg = "dup2"
         /\ status[p] = "reaped"
         /\ nextPid = p + 1

\* process p is the child of a Redirect and is about to run the wrapped
\* sub-tree
StartsSubTree(p) ==
    /\ origin[p].role = "redirect"
    /\ At(p, "run_command")
    /\ Len(stack[p]) >= 2
    /\ stack[p][Len(stack[p]) - 1].pc = "redirect_exit"
    /\ stack[p][Len(stack[p]) - 1].node = origin[p].node
    /\ Top(p).node = ast[origin[p].node].child

\* the descriptor table the child of a Redirect was forked with
TableAtFork(p) == stack[p][Len(stack[p]) - 1].fds0

(***************************************************************************)
(* C12: when the sub-tree wrapped by a Redirect of mode Output or Append   *)
(* starts in the child, the file opened for the target is referred to by   *)
(* exactly the explicit target descriptor, or by both standard output and  *)
(* standard error when none was given; every other descriptor is as it was *)
(* at the fork, and the descriptor open() returned is closed.              *)
(***************************************************************************)
C12_OutputRewiring ==
    \A p \in Pids :
        (StartsSubTree(p)
           /\ ast[origin[p].node].mode \in {"REDIRECT_OUTPUT", "REDIRECT_APPEND"})
        => LET n == origin[p].node
               before == TableAtFork(p)
               aimed == IF ast[n].fd < 0 THEN {STDOUT_FILENO, STDERR_FILENO}
                        ELSE {ast[n].fd}
           IN  /\ \E k \in 1..Len(opens) :
                     /\ opens[k].path = PathId(ast[n].target)
                     /\ opens[k].flags = OpenFlags(ast[n].mode)
                     /\ \A f \in aimed : fds[p][f] = File(k)
               /\ \A f \in Fds \ aimed : fds[p][f] = before[f]
               /\ ~IsOpen(fds[p], LowestFree(before))

(***************************************************************************)
(* Vocabulary of the file contents.                                        *)
(***************************************************************************)
\* the descriptions of the file of description k made before it
Earlier(k) == {j \in 1..(k - 1) : opens[j].path = opens[k].path}

\* the descriptions of the file of description k made after it, up to last
Later(k, last) == {j \in (k + 1)..last : opens[j].path = opens[k].path}

Latest(S) == CHOOSE j \in S : \A i \in S : i <= j

\* the mode of the Redirect that made description k
ModeOf(k) == ast[opens[k].by].mode

\* description k was made while no process had its file open for writing
\* and, up to description last, no other one of the file was made after it
Undisturbed(k, last) == opens[k].excl /\ Later(k, last) = {}

(***************************************************************************)
(* C13: a program whose standard input a Redirect Input opened reads       *)
(* exactly the bytes written through the Redirect Output that opened the   *)
(* same path before it, whatever the file held earlier; and after two      *)
(* Redirect Append of the same path the file holds what it held, then the  *)
(* bytes of the first, then the bytes of the second.  Both for redirects   *)
(* that run one after the other, with no other writer of the file.         *)
(***************************************************************************)
C13_FileContents ==
    /\ \A rd \in reads :
         (/\ ModeOf(rd.inst) = "REDIRECT_INPUT"
          /\ Earlier(rd.inst) # {}
          /\ ModeOf(Latest(Earlier(rd.inst))) = "REDIRECT_OUTPUT"
          /\ opens[Latest(Earlier(rd.inst))].excl
          /\ Undisturbed(rd.inst, rd.last))
         => rd.bytes = opens[Latest(Earlier(rd.inst))].log
    /\ \A a \in 1..Len(opens) :
         (/\ ModeOf(a) = "REDIRECT_APPEND"
          /\ Earlier(a) # {}
          /\ ModeOf(Latest(Earlier(a))) = "REDIRECT_APPEND"
          /\ opens[Latest(Earlier(a))].excl
          /\ Undisturbed(a, Len(opens)))
         => content[opens[a].path] =
               opens[Latest(Earlier(a))].found \o opens[Latest(Earlier(a))].log \o opens[a].log

\* ls > f over an old file, cat < f, ls >> f and ls >> f have run in turn:
\* cat read the one byte ls wrote, and the file holds three
C13_Witness ==
    /\ At(Shell, "main_done")
    /\ Len(opens) = 4
    /\ opens[1].found = OldBytes
    /\ \E rd \in reads : rd.inst = 2 /\ rd.bytes = Output(S_ls, <<>>) /\ rd.bytes # <<>>
    /\ opens[3].log # <<>> /\ opens[4].log # <<>>
    /\ content[opens[4].path] = opens[1].log \o opens[3].log \o opens[4].log

Range(s) == {s[k] : k \in 1..Len(s)}

\* the processes forked as stages of pipeline node n by process p
StagesOf(p, n) ==
    {c \in Pids : parent[c] = p /\ origin[c].role = "stage"
                  /\ origin[c].node \in Range(ast[n].parts)}

(***************************************************************************)
(* C15: when the fork of stage i of a pipeline fails, execute_pipe returns *)
(* to its caller in that very step with every pipe descriptor closed, its  *)
(* descriptor table as at entry, no process forked, and every other        *)
(* process, the stages 0..i-1 among them, left as it is: not waited for,   *)
(* not reaped, not signalled.  The stages of a pipeline that ended so are  *)
(* the i it had forked, then and ever after.                               *)
(***************************************************************************)
C15_ForkFailureAbandonsPipeline ==
    [][/\ \A p \in Pids :
            (At(p, "pipe_fork") /\ (nextPid' = nextPid) /\ stack'[p] # stack[p])
               => /\ Returns(p)
                  /\ \E d \in diag' \ diag : d.pid = p /\ d.msg = "fork"
                  /\ Len(Top(p).pids) < Node(p).n_parts
                  /\ PipesClosed(fds'[p], Top(p).pipes)
                  /\ fds'[p] = Top(p).fds0
                  /\ \A q \in Pids \ {p} : /\ status'[q] = status[q]
                                           /\ stack'[q] = stack[q]
                                           /\ fds'[q] = fds[q]
       /\ \A r \in pipeRets' :
            r.how = "fork_failed"
               => /\ Len(r.pids) < ast[r.node].n_parts
                  /\ StagesOf(r.pid, r.node)' = Range(r.pids)]_vars

\* the fork of the second stage of ls | cat failed; the shell has gone on to
\* the next node of the sequence while the first stage, never waited for, is
\* still running
C15_Witness ==
    \E r \in pipeRets :
        /\ r.how = "fork_failed"
        /\ r.pid = Shell
        /\ Len(r.pids) = 1
        /\ status[r.pids[1]] = "running"
        /\ \E n \in 1..Len(ast) : n \notin SubTree(ast, r.node) /\ <<Shell, n>> \in visited
                                  /\ ast[n].type = "NODE_COMMAND"

RECURSIVE Descends(_, _)
\* process q is process c or a descendant of it
Descends(q, c) == q = c \/ (parent[q] # 0 /\ Descends(parent[q], c))

\* the pipelines under way or over: their pipes, the stages forked so far and
\* whether the process that runs execute_pipe has closed its descriptors
Pipelines ==
    {[pobj |-> Top(p).pobj, pids |-> Top(p).pids, released |-> Top(p).pc = "pipe_wait"] :
        p \in {q \in Pids : InPipe(q) /\ Top(q).pc \in {"pipe_fork", "pipe_close", "pipe_wait"}}}
    \cup {[pobj |-> r.pobj, pids |-> r.pids, released |-> TRUE] :
            r \in {x \in pipeRets : x.how \in {"done", "fork_failed"}}}

\* the pairs (process, descriptor) that refer to description d
Holders(d) == {<<q, f>> \in Pids \X Fds : fds[q][f] = d}

\* stage k of pipeline L is forked and has done its dup2 calls and closes
Wired(L, k) == k \in 1..Len(L.pids) /\ ~At(L.pids[k], "stage_wire")

\* a stage of pipeline L that still has to do its dup2 calls and closes
Unwired(L, q) == \E k \in 1..Len(L.pids) : L.pids[k] = q /\ At(q, "stage_wire")

(***************************************************************************)
(* C16: a stage child that has done its wiring holds, of the pipes of its  *)
(* pipeline, only the write end of its own pipe on standard output and the *)
(* read end of the previous pipe on standard input.  Once the parent has   *)
(* closed its copies, the write end of pipe j is held only by stage j and  *)
(* its descendants and the read end only by stage j+1 and its descendants  *)
(* (and by stage children that have not yet done their closes); so when    *)
(* all stages have done them and stage j and its descendants have ended,   *)
(* the read end of pipe j is at end-of-file.  Stages and pipes are counted *)
(* from 1 here.                                                            *)
(***************************************************************************)
C16_PipeEndOwnership ==
    \A L \in Pipelines :
        /\ \A k \in 1..Len(L.pids), j \in 1..Len(L.pobj), f \in Fds :
             Wired(L, k)
                => /\ fds[L.pids[k]][f] = PipeWrite(L.pobj[j]) => j = k /\ f = STDOUT_FILENO
                   /\ fds[L.pids[k]][f] = PipeRead(L.pobj[j]) => j = k - 1 /\ f = STDIN_FILENO
        /\ L.released
             => \A j \in 1..Len(L.pobj) :
                  /\ \A h \in Holders(PipeWrite(L.pobj[j])) :
                       \/ Unwired(L, h[1])
                       \/ j <= Len(L.pids) /\ Descends(h[1], L.pids[j])
                  /\ \A h \in Holders(PipeRead(L.pobj[j])) :
                       \/ Unwired(L, h[1])
                       \/ j + 1 <= Len(L.pids) /\ Descends(h[1], L.pids[j + 1])
                  /\ (/\ \A k \in 1..Len(L.pids) : Wired(L, k)
                      /\ \A q \in Pids : (j <= Len(L.pids) /\ Descends(q, L.pids[j]))
                                            => status[q] # "running")
                        => AtEof(PipeRead(L.pobj[j]))

\* the parent of a two-stage pipeline has closed its copies; the first stage
\* and a descendant of it, which held the write end, have ended; the second
\* stage, a program reading the pipe, is still running and at end-of-file
C16_Witness ==
    \E L \in Pipelines :
        /\ L.released
        /\ Len(L.pids) = 2
        /\ \E q \in Pids \ {L.pids[1]} : Descends(q, L.pids[1]) /\ exitCause[q] = "program"
        /\ \A q \in Pids : Descends(q, L.pids[1]) => status[q] \in {"zombie", "reaped"}
        /\ status[L.pids[2]] = "running"
        /\ stack[L.pids[2]] = <<>>
        /\ ReadsStdin(image[L.pids[2]])
        /\ fds[L.pids[2]][STDIN_FILENO] = PipeRead(L.pobj[1])
        /\ AtEof(PipeRead(L.pobj[1]))

(***************************************************************************)
(* Vocabulary of the order of execution.                                   *)
(***************************************************************************)
\* the processes created for the nodes N: forked by the launcher or the
\* redirect wrapper for a node of N, or as a pipeline stage that is one
CreatedFor(N) == {c \in Pids : status[c] # "unused" /\ origin[c].node \in N}

\* in this step the execution of the nodes N goes on: run_command dispatches
\* one of them, a process is created for one, or a built-in of them runs
Acts(N) ==
    \/ \E v \in visited' \ visited : v[2] \in N
    \/ \E c \in Pids : status[c] = "unused" /\ status'[c] # "unused" /\ origin'[c].node \in N
    \/ \E p \in Pids : /\ At(p, "command")
                       /\ Top(p).node \in N
                       /\ Node(p).program \in BuiltIns
                       /\ stack'[p] # stack[p]

\* the stages a pipeline left behind when the fork of a later stage failed,
\* and their descendants
Abandoned ==
    {q \in Pids : \E r \in pipeRets :
                     r.how = "fork_failed" /\ \E k \in 1..Len(r.pids) : Descends(q, r.pids[k])}

(***************************************************************************)
(* C17 as stated: in a Sequence nothing of the second sub-tree happens (no *)
(* dispatch, no process created, no built-in run) while a process created  *)
(* for the first sub-tree is running.                                      *)
(***************************************************************************)
C17_SecondAfterFirst ==
    [][\A s \in SequenceNodes :
         Acts(SubTree(ast, ast[s].second))
            => \A c \in CreatedFor(SubTree(ast, ast[s].first)) : status[c] # "running"]_vars

(***************************************************************************)
(* C17 amended: in a Sequence nothing of the second sub-tree happens while *)
(* a process created for the first sub-tree is running, except for the     *)
(* stages, and their descendants, that a pipeline of the first sub-tree    *)
(* left behind when the fork of one of its later stages failed.            *)
(***************************************************************************)
C17_SecondAfterFirstUnlessAbandoned ==
    [][\A s \in SequenceNodes :
         Acts(SubTree(ast, ast[s].second))
            => \A c \in CreatedFor(SubTree(ast, ast[s].first)) :
                  status[c] = "running" => c \in Abandoned]_vars

\* a process of the second sub-tree of a Sequence runs after the pipeline
\* that is its first sub-tree has run both stages and reaped them
C17_Witness ==
    \E s \in SequenceNodes :
        /\ ast[ast[s].first].type = "NODE_PIPE"
        /\ Cardinality(CreatedFor(SubTree(ast, ast[s].first))) = ast[ast[s].first].n_parts
        /\ \A c \in CreatedFor(SubTree(ast, ast[s].first)) : status[c] = "reaped"
        /\ \E c \in CreatedFor(SubTree(ast, ast[s].second)) : status[c] = "running"

\* process p runs one of the functions run_command dispatches to
InExecute(p) ==
    /\ status[p] = "running"
    /\ stack[p] # <<>>
    /\ Top(p).fn \in {"execute_command", "execute_sequence", "execute_pipe",
                      "execute_redirect"}

\* the children process p has forked for the nodes of the sub-tree at n
ForkedIn(p, n) == {c \in Pids : parent[c] = p /\ origin[c].node \in SubTree(ast, n)}

\* the stages process p left behind in pipelines whose fork of a later stage
\* failed
AbandonedBy(p) ==
    {c \in Pids : \E r \in pipeRets :
                     r.pid = p /\ r.how = "fork_failed" /\ c \in Range(r.pids)}

(***************************************************************************)
(* C18 as stated: when the call of run_command on a node returns in a      *)
(* process, every child the process forked during the call has terminated  *)
(* and has been reaped by it.                                              *)
(***************************************************************************)
C18_ReturnLeavesNoChild ==
    [][\A p \in Pids :
         (InExecute(p) /\ Returns(p))
            => \A c \in ForkedIn(p, Top(p).node)' : status'[c] = "reaped"]_vars

(***************************************************************************)
(* C18 amended: when the call of run_command on a node returns in a        *)
(* process, every child the process forked during the call has terminated  *)
(* and has been reaped by it, except the stages 0..i-1 of a pipeline whose  *)
(* fork of stage i failed, which are not waited for.                       *)
(***************************************************************************)
C18_ReturnLeavesOnlyAbandoned ==
    [][\A p \in Pids :
         (InExecute(p) /\ Returns(p))
            => \A c \in ForkedIn(p, Top(p).node)' :
                  status'[c] = "reaped" \/ c \in AbandonedBy(p)']_vars

\* the shell is back from a Sequence of a pipeline and a command: it has
\* forked three children, waited for each and reaped it
C18_Witness ==
    /\ At(Shell, "main_done")
    /\ \E r \in pipeRets : r.pid = Shell /\ r.how = "done"
    /\ Cardinality(ForkedIn(Shell, 1)) = 3
    /\ \E c \in ForkedIn(Shell, 1) : origin[c].role = "command"
    /\ \A c \in ForkedIn(Shell, 1) : status[c] = "reaped"
    /\ AbandonedBy(Shell) = {}

(***************************************************************************)
(* Vocabulary of the forked processes.                                     *)
(***************************************************************************)
\* the positions of the branch of a forked child, for each kind of fork
ChildPcs(role) ==
    CASE role = "command" -> {"command_child", "command_exec"}
      [] role = "stage" -> {"stage_wire", "stage_exec", "stage_exit"}
      [] role = "redirect" -> {"redirect_child", "redirect_exit"}
      [] OTHER -> {}

\* frame f is the activation in which child p was forked, still inside the
\* child's branch
BirthFrame(p, f) ==
    /\ f.pc \in ChildPcs(origin[p].role)
    /\ IF origin[p].role = "stage"
       THEN f.fn = "execute_pipe" /\ ast[f.node].parts[f.i + 1] = origin[p].node
       ELSE f.node = origin[p].node

\* a forked process is inside the branch that created it, has exec'ed, or
\* has ended at a node of the sub-tree it was forked for
StaysInBranch(p) ==
    /\ (status[p] = "running" /\ stack[p] # <<>>)
          => \E d \in 1..Len(stack[p]) : BirthFrame(p, stack[p][d])
    /\ status[p] \in {"zombie", "reaped"}
          => exitNode[p] \in SubTree(ast, origin[p].node)

\* no node is dispatched, exec'ed or forked for twice, and a forked process
\* dispatches only nodes of the sub-tree it was forked for
OncePerNode ==
    /\ \A n \in 1..Len(ast) :
         /\ Cardinality({v \in visited : v[2] = n}) <= 1
         /\ Cardinality({e \in execCalls : e.node = n}) <= 1
         /\ \A r \in {"command", "stage", "redirect"} :
              Cardinality({c \in Pids : status[c] # "unused"
                                        /\ origin[c] = [role |-> r, node |-> n]}) <= 1
    /\ \A v \in visited : v[1] = Shell \/ v[2] \in SubTree(ast, origin[v[1]].node)
    /\ \A e \in execCalls : e.pid # Shell /\ e.node \in SubTree(ast, origin[e.pid].node)

(***************************************************************************)
(* C19: a process forked by the launcher, the pipeline or the redirect     *)
(* wrapper stays inside the branch of the child until it execs or exits,   *)
(* and never resumes a frame it inherited; no node is dispatched a second  *)
(* time, by the same or by another process, no node is exec'ed or forked   *)
(* for twice, and only the shell dispatches nodes outside the sub-tree a   *)
(* process was forked for.                                                 *)
(***************************************************************************)
C19_ChildrenNeverReturn ==
    [][/\ \A p \in Pids \ {Shell} : StaysInBranch(p)'
       /\ OncePerNode'
       /\ \A p \in Pids :
            (At(p, "run_command") /\ Top(p).node # NULL /\ stack'[p] # stack[p])
               => \A q \in Pids : <<q, Top(p).node>> \notin visited]_vars

\* the shell is back from a pipeline; a stage child has run a Redirect and
\* ended by exit(0), the redirect child has run a command and ended by
\* exit(0), and the child forked for that command ended by exit(1) after a
\* failed execvp
C19_Witness ==
    /\ At(Shell, "main_done")
    /\ \E s, r, c \in Pids \ {Shell} :
         /\ origin[s].role = "stage" /\ exitCause[s] = "stage_done"
         /\ origin[r].role = "redirect" /\ exitCause[r] = "redirect_done" /\ parent[r] = s
         /\ origin[c].role = "command" /\ exitCause[c] = "exec_failed" /\ parent[c] = r
    /\ \A n \in 1..Len(ast) : \E v \in visited : v[2] = n \/ \E e \in execCalls : e.node = n

\* process p is the caller of execute_redirect, before the fork or waiting
\* for the child
InRedirect(p) == At(p, "redirect_fork") \/ At(p, "redirect_wait")

(***************************************************************************)
(* C20: from the entry of execute_redirect to its return, no step changes  *)
(* the descriptor table or the working directory of the calling process,   *)
(* nor ends it: the table is the one at entry throughout and at the        *)
(* return, whatever the child rewires and whatever cd or exit the wrapped  *)
(* sub-tree runs.                                                          *)
(***************************************************************************)
C20_RedirectLeavesCaller ==
    [][\A p \in Pids :
         InRedirect(p)
            => /\ status'[p] = "running"
               /\ fds[p] = Top(p).fds0
               /\ fds'[p] = fds[p]
               /\ cwd'[p] = cwd[p]]_vars

\* the shell is back from cd /d 2>> f: the child opened the file, changed
\* its directory and ended; the shell has its three descriptors and its
\* directory as before
C20_Witness ==
    /\ At(Shell, "main_done")
    /\ ast[1].type = "NODE_REDIRECT"
    /\ Len(opens) = 1
    /\ \E c \in Pids :
         /\ origin[c].role = "redirect"
         /\ parent[c] = Shell
         /\ exitCause[c] = "redirect_done"
         /\ cwd[c] = S_dir
    /\ cwd[Shell] = S_root
    /\ fds[Shell] = StdFds

====
